---- MODULE Spec2Model ----
(***************************************************************************)
(* State-machine model of the Stylus VendingMachine contract               *)
(* (src/src/lib.rs).  Every externally callable operation is one atomic    *)
(* host transaction, so each one is one action.  The host's block          *)
(* timestamp is a variable that the host may set between transactions.     *)
(*                                                                         *)
(* Widths are scaled: U256 is modelled as WordBits bits and the u64 block  *)
(* timestamp as 0..MaxBlockTimestamp, keeping the relation of the real     *)
(* widths (2^64 + 5 < 2^256) as MaxBlockTimestamp + Cooldown < 2^WordBits. *)
(***************************************************************************)
EXTENDS Integers, Sequences, FiniteSets, TLC

\* ---- bounds ----
NumAddresses == 2
MaxBlockTimestamp == 11
WordBits == 6

\* ---- program constants ----
Cooldown == 5

Address == 0 .. (NumAddresses - 1)
Timestamps == 0 .. MaxBlockTimestamp
U256Modulus == 2 ^ WordBits
NoValue == -1

VARIABLES
    cupcake_balances,            \* mapping(address => uint256)
    cupcake_distribution_times,  \* mapping(address => uint256)
    block_timestamp,             \* host: self.vm().block_timestamp(), u64
    call,                        \* the last transaction: operation, argument, result, pre-state
    grant_log,                   \* per address, the host times of the calls that returned Ok(true)
    observed,                    \* per address, the last queried balance since its last grant
    vm_context,                  \* host: msg sender, msg value and block number of the transaction
    tx                           \* the invocation in flight: position in give_cupcake_to, pre-state

vars == <<cupcake_balances, cupcake_distribution_times, block_timestamp,
          call, grant_log, observed, vm_context, tx>>

\* No invocation in flight.
Idle ==
    [pc |-> "idle", user_address |-> 0, can |-> FALSE, writes |-> 0,
     saved_balances |-> [a \in Address |-> 0], saved_times |-> [a \in Address |-> 0]]

\* The host configurations of the tests: TestVM::default(), and the builder
\* with a sender, value(1) and set_block_number.
VmContexts ==
    { [sender |-> 0, value |-> 0, block_number |-> 0],
      [sender |-> 1, value |-> 1, block_number |-> 1] }

\* U256::from(x) for an unsigned value of a narrower width: zero extension.
U256_from(x) == x % U256Modulus

\* `+` on U256 (ruint): wrapping addition modulo 2^256.
wrapping_add(x, y) == (x + y) % U256Modulus

\* StorageMap::get: the stored word, 0 for a key never written.
get(map, key) == map[key]

setter_set_all(map, key, value) == [k \in DOMAIN map |-> value]
\* StorageMap::setter(key).set(value): replaces the word under key only.
setter_set(map, key, value) == [map EXCEPT ![key] = value]

five_seconds_plus_4(last_distribution) == wrapping_add(last_distribution, U256_from(4))
five_seconds_plus_6(last_distribution) == wrapping_add(last_distribution, U256_from(6))
\* lib.rs:32  last_distribution + U256::from(5)
five_seconds_from_last_distribution(last_distribution) ==
    wrapping_add(last_distribution, U256_from(Cooldown))

user_can_receive_cupcake_first_free(last_distribution, current_time) ==
    \/ last_distribution = 0
    \/ five_seconds_from_last_distribution(last_distribution) <= U256_from(current_time)
user_can_receive_cupcake_distance(last_distribution, current_time) ==
    \/ five_seconds_from_last_distribution(last_distribution) <= U256_from(current_time)
    \/ wrapping_add(U256_from(current_time), U256_from(Cooldown)) <= last_distribution
user_can_receive_cupcake_global(last_distribution, current_time) ==
    \A a \in Address :
        five_seconds_from_last_distribution(cupcake_distribution_times[a])
            <= U256_from(current_time)
user_can_receive_cupcake_strict(last_distribution, current_time) ==
    five_seconds_from_last_distribution(last_distribution) < U256_from(current_time)
\* lib.rs:37-38  five_seconds_from_last_distribution <= U256::from(current_time)
user_can_receive_cupcake(last_distribution, current_time) ==
    five_seconds_from_last_distribution(last_distribution) <= U256_from(current_time)

balance_set_one(stored) == U256_from(1)
balance_plus_2(stored) == wrapping_add(stored, U256_from(2))
balance_minus_1(stored) == (stored + U256Modulus - 1) % U256Modulus
\* lib.rs:43  balance_accessor.get() + U256::from(1)
balance(stored) == wrapping_add(stored, U256_from(1))

new_distribution_time_scaled(now) == (U256_from(now) * 6) % U256Modulus
new_distribution_time_next_allowed(now) == wrapping_add(U256_from(now), U256_from(Cooldown))
\* lib.rs:47,51  U256::from(self.vm().block_timestamp()), read again after the check;
\* the host reports one block timestamp throughout a transaction.
new_distribution_time(now) == U256_from(now)

\* The record kept of a transaction.
Call(op, user_address, ok, granted, count) ==
    [op |-> op, user_address |-> user_address, now |-> block_timestamp,
     ok |-> ok, granted |-> granted, count |-> count,
     pre_balances |-> cupcake_balances,
     pre_times |-> cupcake_distribution_times]

Init ==
    /\ cupcake_balances = [a \in Address |-> 0]
    /\ cupcake_distribution_times = [a \in Address |-> 0]
    /\ block_timestamp \in Timestamps
    /\ call = [op |-> "deploy", user_address |-> 0, now |-> block_timestamp,
               ok |-> TRUE, granted |-> FALSE, count |-> 0,
               pre_balances |-> [a \in Address |-> 0],
               pre_times |-> [a \in Address |-> 0]]
    /\ grant_log = [a \in Address |-> <<>>]
    /\ observed = [a \in Address |-> NoValue]
    /\ vm_context \in VmContexts
    /\ tx = Idle

\* The host moves to a block with another timestamp (TestVM::set_block_timestamp).
set_block_timestamp(t) ==
    /\ t # block_timestamp
    /\ block_timestamp' = t
    /\ call' = [Call("set_block_timestamp", 0, TRUE, FALSE, 0) EXCEPT !.now = t]
    /\ UNCHANGED <<cupcake_balances, cupcake_distribution_times, grant_log, observed,
                   vm_context, tx>>

\* The host runs the next transaction for another sender, value and block number.
set_vm_context(c) ==
    /\ c # vm_context
    /\ vm_context' = c
    /\ call' = Call("set_vm_context", 0, TRUE, FALSE, 0)
    /\ UNCHANGED <<cupcake_balances, cupcake_distribution_times, block_timestamp,
                   grant_log, observed, tx>>

grant_without_balance(user_address) ==
    /\ cupcake_balances' = cupcake_balances
    /\ cupcake_distribution_times' =
           setter_set(cupcake_distribution_times, user_address,
                      new_distribution_time(block_timestamp))
    /\ call' = Call("give_cupcake_to", user_address, TRUE, TRUE, 0)
    /\ grant_log' = [grant_log EXCEPT ![user_address] = Append(@, block_timestamp)]
    /\ observed' = [observed EXCEPT ![user_address] = NoValue]
\* lib.rs:40-52  the success branch: both writes, then Ok(true).
grant(user_address) ==
    /\ cupcake_balances' =
           setter_set(cupcake_balances, user_address,
                      balance(get(cupcake_balances, user_address)))
    /\ cupcake_distribution_times' =
           setter_set(cupcake_distribution_times, user_address,
                      new_distribution_time(block_timestamp))
    /\ call' = Call("give_cupcake_to", user_address, TRUE, TRUE, 0)
    /\ grant_log' = [grant_log EXCEPT ![user_address] = Append(@, block_timestamp)]
    /\ observed' = [observed EXCEPT ![user_address] = NoValue]

refuse_recording_time(user_address) ==
    /\ cupcake_distribution_times' =
           setter_set(cupcake_distribution_times, user_address, U256_from(block_timestamp))
    /\ call' = Call("give_cupcake_to", user_address, TRUE, FALSE, 0)
    /\ UNCHANGED <<cupcake_balances, grant_log, observed>>
\* lib.rs:53-59  the refusal branch: a console diagnostic, then Ok(false).
refuse(user_address) ==
    /\ call' = Call("give_cupcake_to", user_address, TRUE, FALSE, 0)
    /\ UNCHANGED <<cupcake_balances, cupcake_distribution_times, grant_log, observed>>

\* lib.rs:28-60
give_cupcake_to(user_address) ==
    /\ IF user_can_receive_cupcake(get(cupcake_distribution_times, user_address),
                                   block_timestamp)
       THEN grant(user_address)
       ELSE refuse(user_address)
    /\ UNCHANGED <<block_timestamp, vm_context, tx>>

get_cupcake_balance_for_times(user_address) ==
    /\ call' = Call("get_cupcake_balance_for", user_address, TRUE, FALSE,
                    get(cupcake_distribution_times, user_address))
    /\ observed' = [observed EXCEPT ![user_address] = call'.count]
    /\ UNCHANGED <<cupcake_balances, cupcake_distribution_times, block_timestamp, grant_log,
                   vm_context, tx>>
\* lib.rs:61-63  Ok(self.cupcake_balances.get(user_address))
get_cupcake_balance_for(user_address) ==
    /\ call' = Call("get_cupcake_balance_for", user_address, TRUE, FALSE,
                    get(cupcake_balances, user_address))
    /\ observed' = [observed EXCEPT ![user_address] = call'.count]
    /\ UNCHANGED <<cupcake_balances, cupcake_distribution_times, block_timestamp, grant_log,
                   vm_context, tx>>

Next ==
    \/ \E t \in Timestamps : set_block_timestamp(t)
    \/ \E c \in VmContexts : set_vm_context(c)
    \/ \E a \in Address : give_cupcake_to(a)
    \/ \E a \in Address : get_cupcake_balance_for(a)

Spec == Init /\ [][Next]_vars

\* Storage words a snapshot may hold for a balance: small counts and the largest U256.
BalanceSamples == {0, 1, U256Modulus - 1}

\* give_cupcake_to as a function of (store snapshot, now, account): the
\* snapshot is drawn from the values the two uint256 mappings can hold.
InitAny ==
    /\ cupcake_balances \in [Address -> BalanceSamples]
    /\ cupcake_distribution_times \in [Address -> {0, Cooldown}]
    /\ block_timestamp \in Timestamps
    /\ call = [op |-> "deploy", user_address |-> 0, now |-> block_timestamp,
               ok |-> TRUE, granted |-> FALSE, count |-> 0,
               pre_balances |-> cupcake_balances,
               pre_times |-> cupcake_distribution_times]
    /\ grant_log = [a \in Address |-> <<>>]
    /\ observed = [a \in Address |-> NoValue]
    /\ vm_context \in VmContexts
    /\ tx = Idle

SpecAny == InitAny /\ [][Next]_vars

\* ---- give_cupcake_to statement by statement, under a host that may abort ----
\* The storage variables are what the invocation reads and writes; tx keeps the
\* state committed before it started.  Other transactions run only between
\* invocations (tx.pc = "idle").

\* lib.rs:30-38  read the last distribution time and the clock, decide.
tx_begin(user_address) ==
    /\ tx.pc = "idle"
    /\ tx' = [pc |-> "checked", user_address |-> user_address,
              can |-> user_can_receive_cupcake(
                          get(cupcake_distribution_times, user_address), block_timestamp),
              writes |-> 0,
              saved_balances |-> cupcake_balances,
              saved_times |-> cupcake_distribution_times]
    /\ call' = Call("invoke", user_address, TRUE, FALSE, 0)
    /\ UNCHANGED <<cupcake_balances, cupcake_distribution_times, block_timestamp,
                   grant_log, observed, vm_context>>

tx_write_balance_then_return ==
    /\ tx.pc = "checked" /\ tx.can
    /\ cupcake_balances' =
           setter_set(cupcake_balances, tx.user_address,
                      balance(get(cupcake_balances, tx.user_address)))
    /\ tx' = [tx EXCEPT !.pc = "time_written", !.writes = @ + 1]
    /\ UNCHANGED <<cupcake_distribution_times, block_timestamp, call, grant_log,
                   observed, vm_context>>
\* lib.rs:40-44  the first storage write: the incremented balance.
tx_write_balance ==
    /\ tx.pc = "checked" /\ tx.can
    /\ cupcake_balances' =
           setter_set(cupcake_balances, tx.user_address,
                      balance(get(cupcake_balances, tx.user_address)))
    /\ tx' = [tx EXCEPT !.pc = "balance_written", !.writes = @ + 1]
    /\ UNCHANGED <<cupcake_distribution_times, block_timestamp, call, grant_log,
                   observed, vm_context>>

\* lib.rs:47-51  the second storage write: the block timestamp.
tx_write_time ==
    /\ tx.pc = "balance_written"
    /\ cupcake_distribution_times' =
           setter_set(cupcake_distribution_times, tx.user_address,
                      new_distribution_time(block_timestamp))
    /\ tx' = [tx EXCEPT !.pc = "time_written", !.writes = @ + 1]
    /\ UNCHANGED <<cupcake_balances, block_timestamp, call, grant_log, observed, vm_context>>

\* lib.rs:52  return Ok(true); the host commits the invocation.
tx_return_true ==
    /\ tx.pc = "time_written"
    /\ call' = [Call("give_cupcake_to", tx.user_address, TRUE, TRUE, 0)
                  EXCEPT !.pre_balances = tx.saved_balances, !.pre_times = tx.saved_times]
    /\ grant_log' = [grant_log EXCEPT ![tx.user_address] = Append(@, block_timestamp)]
    /\ observed' = [observed EXCEPT ![tx.user_address] = NoValue]
    /\ tx' = Idle
    /\ UNCHANGED <<cupcake_balances, cupcake_distribution_times, block_timestamp, vm_context>>

\* lib.rs:53-59  return Ok(false) after the diagnostic.
tx_return_false ==
    /\ tx.pc = "checked" /\ ~tx.can
    /\ call' = [Call("give_cupcake_to", tx.user_address, TRUE, FALSE, 0)
                  EXCEPT !.pre_balances = tx.saved_balances, !.pre_times = tx.saved_times]
    /\ tx' = Idle
    /\ UNCHANGED <<cupcake_balances, cupcake_distribution_times, block_timestamp,
                   grant_log, observed, vm_context>>

\* The host aborts the invocation (out of gas, revert): every write it made is
\* discarded and the caller sees a failure.  The record of the call counts the
\* writes that were discarded.
host_abort ==
    /\ tx.pc # "idle"
    /\ cupcake_balances' = tx.saved_balances
    /\ cupcake_distribution_times' = tx.saved_times
    /\ call' = [Call("give_cupcake_to", tx.user_address, FALSE, FALSE, tx.writes)
                  EXCEPT !.pre_balances = tx.saved_balances, !.pre_times = tx.saved_times]
    /\ tx' = Idle
    /\ UNCHANGED <<block_timestamp, grant_log, observed, vm_context>>

NextTx ==
    \/ tx.pc = "idle" /\ \E t \in Timestamps : set_block_timestamp(t)
    \/ tx.pc = "idle" /\ \E a \in Address : get_cupcake_balance_for(a)
    \/ \E a \in Address : tx_begin(a)
    \/ tx_write_balance
    \/ tx_write_time
    \/ tx_return_true
    \/ tx_return_false
    \/ host_abort

\* A fresh deployment under TestVM::default().
InitTx ==
    /\ Init
    /\ vm_context = [sender |-> 0, value |-> 0, block_number |-> 0]

SpecTx == InitTx /\ [][NextTx]_vars

\* ---- claims ----

IsGive == call.op = "give_cupcake_to"
IsGet == call.op = "get_cupcake_balance_for"

\* C1 (cooldown law): for every account, any two calls give_cupcake_to that
\* returned true at host times t1 < t2 satisfy t2 >= t1 + 5.
C1_CooldownLaw ==
    \A a \in Address :
        \A i, j \in 1 .. Len(grant_log[a]) :
            grant_log[a][i] < grant_log[a][j] => grant_log[a][j] >= grant_log[a][i] + 5

C1_Witness == \E a \in Address : Len(grant_log[a]) >= 2

\* C2 (unit increment): a give_cupcake_to(a) that returns true leaves balances[a]
\* at its pre-call value plus exactly 1; one that returns false leaves it equal.
C2_UnitIncrement ==
    IsGive =>
        LET a == call.user_address IN
        IF call.granted
        THEN cupcake_balances[a] = call.pre_balances[a] + 1
        ELSE cupcake_balances[a] = call.pre_balances[a]

C2_Witness ==
    /\ IsGive /\ call.granted
    /\ call.pre_balances[call.user_address] >= 1
    /\ cupcake_balances[call.user_address] = call.pre_balances[call.user_address] + 1

\* C3 (non-strict boundary): give_cupcake_to(a) returns true exactly when
\* last_grant_at[a] + 5 <= now, so true at last + 5 and false at last + 4.
C3_NonStrictBoundary ==
    IsGive =>
        (call.granted <=> call.pre_times[call.user_address] + 5 <= call.now)

C3_Witness ==
    /\ IsGive /\ call.granted
    /\ call.pre_times[call.user_address] > 0
    /\ call.now = call.pre_times[call.user_address] + 5

\* C4 (first-grant gate): an account never granted has last_grant_at = 0, and
\* for last_grant_at = 0 the call returns true when now >= 5 and false when now < 5.
C4_FirstGrantGate ==
    IsGive =>
        LET a == call.user_address
            never_granted == Len(grant_log[a]) = (IF call.granted THEN 1 ELSE 0)
        IN  /\ never_granted => call.pre_times[a] = 0
            /\ call.pre_times[a] = 0 => (call.granted <=> call.now >= 5)

C4_Witness ==
    /\ IsGive /\ ~call.granted
    /\ grant_log[call.user_address] = <<>>
    /\ call.now < 5

\* C5 (refusal is a value and changes nothing): a give_cupcake_to(a) made while
\* now < last_grant_at[a] + 5 returns Ok(false) and leaves both mappings as they were.
C5_RefusalChangesNothing ==
    (IsGive /\ call.now < call.pre_times[call.user_address] + 5) =>
        /\ call.ok /\ ~call.granted
        /\ cupcake_balances = call.pre_balances
        /\ cupcake_distribution_times = call.pre_times

C5_Witness ==
    /\ IsGive /\ call.ok /\ ~call.granted
    /\ call.pre_times[call.user_address] > 0
    /\ call.now < call.pre_times[call.user_address] + 5
    /\ cupcake_distribution_times = call.pre_times

\* C6 (account isolation): a call on account a, granted, refused or a query,
\* leaves balances[b] and last_grant_at[b] unchanged for every b # a.
C6_AccountIsolation ==
    (IsGive \/ IsGet) =>
        \A b \in Address \ {call.user_address} :
            /\ cupcake_balances[b] = call.pre_balances[b]
            /\ cupcake_distribution_times[b] = call.pre_times[b]

C6_Witness ==
    /\ IsGive /\ call.granted
    /\ \E b \in Address \ {call.user_address} :
           /\ cupcake_balances[b] >= 1
           /\ cupcake_distribution_times[b] # cupcake_distribution_times[call.user_address]

\* C7 (monotonic count): in every step balances[a] does not decrease, and it
\* changes only in a give_cupcake_to(a) that returns true.
C7_MonotonicCount ==
    [][\A a \in Address :
          /\ cupcake_balances'[a] >= cupcake_balances[a]
          /\ cupcake_balances'[a] # cupcake_balances[a] =>
                 (call'.op = "give_cupcake_to" /\ call'.user_address = a /\ call'.granted)
      ]_vars

C7_Witness ==
    /\ IsGive /\ ~call.granted
    /\ cupcake_balances[call.user_address] = 2

\* C8 (grant records the clock): after a give_cupcake_to(a) that returned true at
\* host time t, last_grant_at[a] = t, the block timestamp the comparison used.
C8_GrantRecordsClock ==
    (IsGive /\ call.granted) =>
        /\ cupcake_distribution_times[call.user_address] = call.now
        /\ call.now = block_timestamp
        /\ call.pre_times[call.user_address] + 5 <= cupcake_distribution_times[call.user_address]

C8_Witness ==
    /\ IsGive /\ call.granted
    /\ call.now > call.pre_times[call.user_address] + 5
    /\ cupcake_distribution_times[call.user_address] = call.now

\* C9 (domain coupling): for every account, balances = 0 implies
\* last_grant_at = 0, and last_grant_at # 0 implies balances >= 1.
C9_DomainCoupling ==
    \A a \in Address :
        /\ cupcake_balances[a] = 0 => cupcake_distribution_times[a] = 0
        /\ cupcake_distribution_times[a] # 0 => cupcake_balances[a] >= 1

C9_Witness ==
    \E a, b \in Address :
        /\ cupcake_balances[a] = 0 /\ cupcake_distribution_times[a] = 0
        /\ cupcake_distribution_times[b] # 0 /\ cupcake_balances[b] >= 1

\* C10 (query is a pure read): get_cupcake_balance_for(a) returns Ok(balances[a]),
\* 0 for an account never granted, changes neither mapping, and returns the
\* value of the previous query of a when no grant to a came in between.
C10_QueryPureRead ==
    /\ [](IsGet =>
            /\ call.ok
            /\ call.count = call.pre_balances[call.user_address]
            /\ (grant_log[call.user_address] = <<>> => call.count = 0)
            /\ cupcake_balances = call.pre_balances
            /\ cupcake_distribution_times = call.pre_times)
    /\ [][\A a \in Address :
            (call'.op = "get_cupcake_balance_for" /\ call'.user_address = a
               /\ observed[a] # NoValue) => call'.count = observed[a]
         ]_vars

C10_Witness ==
    /\ IsGet
    /\ call.count >= 1
    /\ call.count = cupcake_balances[call.user_address]
    /\ \E b \in Address : grant_log[b] = <<>> /\ observed[b] = 0

C12_OwnEntryOnly ==
    IsGive =>
        LET a == call.user_address
            bal == call.pre_balances[a]
            last == call.pre_times[a]
            expected == last + 5 <= call.now
        IN  /\ call.granted = expected
            /\ cupcake_balances[a] = (IF expected THEN bal + 1 ELSE bal)
            /\ cupcake_distribution_times[a] = (IF expected THEN call.now ELSE last)

C12_Witness ==
    /\ IsGive /\ call.granted
    /\ call.pre_times[call.user_address] = 0
    /\ vm_context.sender # call.user_address
    /\ \E b \in Address \ {call.user_address} :
           /\ cupcake_distribution_times[b] = call.now - 1
           /\ ~user_can_receive_cupcake(cupcake_distribution_times[b], call.now)

\* C13 (no terminal state), as claimed: for every account there is a host-reportable
\* time now >= last_grant_at[a] + 5 at which give_cupcake_to(a) returns true.
C13_NoTerminalState ==
    \A a \in Address :
        \E t \in Timestamps :
            /\ t >= cupcake_distribution_times[a] + 5
            /\ user_can_receive_cupcake(cupcake_distribution_times[a], t)

\* C13 as amended: for every account whose last_grant_at[a] + 5 does not exceed the
\* largest host timestamp, there is a host-reportable time now >= last_grant_at[a] + 5,
\* at every such time give_cupcake_to(a) returns true, and it records that time.
C13_NoTerminalStateBelowClockMax ==
    \A a \in Address :
        cupcake_distribution_times[a] + 5 <= MaxBlockTimestamp =>
            /\ \E t \in Timestamps : t >= cupcake_distribution_times[a] + 5
            /\ \A t \in Timestamps :
                   t >= cupcake_distribution_times[a] + 5 =>
                       /\ user_can_receive_cupcake(cupcake_distribution_times[a], t)
                       /\ new_distribution_time(t) = t

C13_Witness ==
    /\ IsGive /\ call.granted
    /\ cupcake_distribution_times[call.user_address] = call.now
    /\ call.now + 5 = MaxBlockTimestamp
    /\ user_can_receive_cupcake(call.now, MaxBlockTimestamp)

\* C14 (cooldown sum never overflows): last_grant_at[a] is 0 or a block timestamp
\* at which a was granted, so last_grant_at[a] + 5 stays below 2^256 and the sum
\* the code computes is the unwrapped one.
C14_CooldownSumInRange ==
    \A a \in Address :
        /\ \/ cupcake_distribution_times[a] = 0
           \/ \E i \in 1 .. Len(grant_log[a]) :
                  /\ grant_log[a][i] \in Timestamps
                  /\ cupcake_distribution_times[a] = grant_log[a][i]
        /\ cupcake_distribution_times[a] + 5 < U256Modulus
        /\ five_seconds_from_last_distribution(cupcake_distribution_times[a])
               = cupcake_distribution_times[a] + 5

C14_Witness ==
    /\ IsGive /\ ~call.granted
    /\ call.pre_times[call.user_address] = MaxBlockTimestamp

\* C16 (grant budget): for every account, 5 * balances[a] <= last_grant_at[a].
C16_GrantBudget ==
    \A a \in Address : 5 * cupcake_balances[a] <= cupcake_distribution_times[a]

C16_Witness ==
    \E a \in Address :
        /\ cupcake_balances[a] = 2
        /\ cupcake_distribution_times[a] = 10

\* C17 (grant times strictly increase): last_grant_at[a] never decreases, a granted
\* give_cupcake_to(a) raises it by at least 5, a call at a host time before
\* last_grant_at[a] is refused and changes nothing, and no account is granted
\* twice at the same host time.
C17_GrantTimesIncrease ==
    /\ [][\A a \in Address :
            /\ cupcake_distribution_times'[a] >= cupcake_distribution_times[a]
            /\ (call'.op = "give_cupcake_to" /\ call'.user_address = a /\ call'.granted) =>
                   cupcake_distribution_times'[a] >= cupcake_distribution_times[a] + 5
         ]_vars
    /\ []((IsGive /\ call.now < call.pre_times[call.user_address]) =>
            /\ ~call.granted
            /\ cupcake_balances = call.pre_balances
            /\ cupcake_distribution_times = call.pre_times)
    /\ [](\A a \in Address :
            \A i, j \in 1 .. Len(grant_log[a]) :
                i # j => grant_log[a][i] # grant_log[a][j])

C17_Witness ==
    /\ IsGive /\ ~call.granted
    /\ call.now < call.pre_times[call.user_address]
    /\ Len(grant_log[call.user_address]) = 2

\* C18 (count equals grants): get_cupcake_balance_for(a) returns the number of
\* earlier give_cupcake_to(a) calls that returned true.
C18_CountEqualsGrants ==
    /\ IsGet => call.count = Len(grant_log[call.user_address])
    /\ \A a \in Address : cupcake_balances[a] = Len(grant_log[a])

C18_Witness ==
    /\ IsGet
    /\ call.count = 2
    /\ Len(grant_log[call.user_address]) = 2

\* C15 (atomic commit of the two writes): give_cupcake_to writes balances[a] and
\* then last_grant_at[a]; an invocation aborted at any point leaves the committed
\* state equal to the state before it, and no state seen between invocations has
\* balances[a] incremented with last_grant_at[a] still at the previous grant time.
C15_AtomicCommit ==
    /\ tx.pc = "balance_written" =>
           /\ cupcake_balances[tx.user_address] = tx.saved_balances[tx.user_address] + 1
           /\ cupcake_distribution_times = tx.saved_times
    /\ tx.pc = "time_written" =>
           /\ cupcake_balances[tx.user_address] = tx.saved_balances[tx.user_address] + 1
           /\ cupcake_distribution_times[tx.user_address] = block_timestamp
    /\ (tx.pc = "idle" /\ IsGive /\ ~call.ok) =>
           /\ cupcake_balances = call.pre_balances
           /\ cupcake_distribution_times = call.pre_times
    /\ tx.pc = "idle" =>
           \A a \in Address :
               /\ cupcake_balances[a] = Len(grant_log[a])
               /\ cupcake_distribution_times[a] =
                      (IF grant_log[a] = <<>> THEN 0 ELSE grant_log[a][Len(grant_log[a])])

C15_Witness ==
    /\ tx.pc = "idle"
    /\ IsGive /\ ~call.ok /\ call.count = 1
    /\ call.pre_balances[call.user_address] >= 1
    /\ cupcake_balances = call.pre_balances
    /\ cupcake_distribution_times = call.pre_times

====
